---- MODULE Spec2Model ----
(***************************************************************************)
(* Model of src/war.c: the territory registry, the attack phase            *)
(* (faseDeAtaque / simularAtaque), the mission draw (sortearMissao), the   *)
(* mission evaluation (verificarVitoria) and the game loop of main.        *)
(*                                                                         *)
(* Strings are TLA+ strings.  Every colour name is shorter than TAM_COR-1, *)
(* so the strncpy calls of the source copy the whole name.                 *)
(* Arrays are functions over 0..TOTAL_TERRITORIOS-1, as in C; the indices  *)
(* typed by the player are 1-based and converted with "- 1" as in the      *)
(* source.  pc is the position of the single thread of the program.        *)
(***************************************************************************)
EXTENDS Integers, Sequences, FiniteSets, TLC

\* ---------------------------------------------------------------- constants
TOTAL_TERRITORIOS == 5

FACES_DADO == 6

MAX_TENTATIVAS == 10

LIMIAR_TERRITORIOS == 3

\* ------------------------------------------------------------------- bounds
\* Number of troops lost by the registry after which no further attack that
\* would roll the dice is typed (bounds the exploration).
MaxBaixas == 8

\* Largest number of attacks the player asks for in one attack command.
MaxNAtaques == 2

\* The same two bounds for the specification that follows each attack step
\* by step (SpecPasso), where the dice are part of the state; there the
\* player only types the numbers of the first MaxTerritoriosPasso
\* territories, besides numbers that are not valid.
MaxBaixasPasso == 8

MaxNAtaquesPasso == 2

MaxTerritoriosPasso == 2

\* Values typed at the menu, at the attack count prompt and at the two
\* territory prompts.
EntradaOpcao == -1 .. 3

EntradaNAtaques == -1 .. MaxNAtaques

EntradaNAtaquesPasso == -1 .. MaxNAtaquesPasso

EntradaIndice == -1 .. (TOTAL_TERRITORIOS + 1)

EntradaIndicePasso == (-1 .. MaxTerritoriosPasso) \cup {TOTAL_TERRITORIOS + 1}

\* ----------------------------------------------------------- configuration
Indices == 0 .. (TOTAL_TERRITORIOS - 1)

corJogador == "Azul"

\* Variant of cores: the second territory starts with a colour that is not
\* the player's.
coresSemJogador == [k \in Indices |->
            CASE k = 0 -> "Verde"
              [] k = 1 -> "Branco"
              [] k = 2 -> "Vermelho"
              [] k = 3 -> "Amarelo"
              [] OTHER -> "Roxo"]

cores == [k \in Indices |->
            CASE k = 0 -> "Verde"
              [] k = 1 -> "Azul"
              [] k = 2 -> "Vermelho"
              [] k = 3 -> "Amarelo"
              [] OTHER -> "Roxo"]

nomes == [k \in Indices |->
            CASE k = 0 -> "Amazonas"
              [] k = 1 -> "Cerrado"
              [] k = 2 -> "Pantanal"
              [] k = 3 -> "Caatinga"
              [] OTHER -> "Mata Atlantica"]

tropasIniciais == [k \in Indices |->
            CASE k = 0 -> 5
              [] k = 1 -> 4
              [] k = 2 -> 6
              [] k = 3 -> 3
              [] OTHER -> 5]

possiveis == [k \in 0 .. 4 |->
            CASE k = 0 -> "Verde"
              [] k = 1 -> "Azul"
              [] k = 2 -> "Vermelho"
              [] k = 3 -> "Amarelo"
              [] OTHER -> "Roxo"]

Paleta == {possiveis[k] : k \in DOMAIN possiveis}

Dados == 1 .. FACES_DADO

\* -------------------------------------------------------------------- state
VARIABLES
    nome,          \* territorios[k].nome
    tropas,        \* territorios[k].tropas
    corExercito,   \* territorios[k].corExercito
    idMissao,      \* main: idMissao (-1 before sortearMissao returns)
    alvoMissao,    \* main: alvoMissao
    tipo,          \* sortearMissao: tipo (-1 outside the call)
    tent,          \* sortearMissao: tent
    escolhida,     \* sortearMissao: escolhida ("NULL" is the null pointer)
    opcao,         \* main: opcao
    venceu,        \* main: venceu
    nAtaques,      \* faseDeAtaque: nAtaques
    i,             \* faseDeAtaque: i
    atk,           \* faseDeAtaque: atk
    def,           \* faseDeAtaque: def
    dadoAtaque,    \* simularAtaque: dadoAtaque
    dadoDefesa,    \* simularAtaque: dadoDefesa
    saida,         \* result message on the screen ("" after a prompt)
    pc             \* position of the program

vars == <<nome, tropas, corExercito, idMissao, alvoMissao, tipo, tent, escolhida,
          opcao, venceu, nAtaques, i, atk, def, dadoAtaque, dadoDefesa,
          saida, pc>>

mapa == <<nome, tropas, corExercito>>

missao == <<idMissao, alvoMissao>>

sorteio == <<tipo, tent, escolhida>>

locaisAtaque == <<atk, def, dadoAtaque, dadoDefesa>>

\* ------------------------------------------------------------------ helpers
RECURSIVE SomaAte(_, _)
SomaAte(f, k) == IF k < 0 THEN 0 ELSE f[k] + SomaAte(f, k - 1)

TotalTropas == SomaAte(tropas, TOTAL_TERRITORIOS - 1)

TotalInicial == SomaAte(tropasIniciais, TOTAL_TERRITORIOS - 1)

Baixas == TotalInicial - TotalTropas

\* ----------------------------------------------------------- initial state
Init ==
    /\ nome = nomes
    /\ tropas = tropasIniciais
    /\ corExercito = cores
    /\ idMissao = -1
    /\ alvoMissao = ""
    /\ tipo = -1
    /\ tent = 0
    /\ escolhida = "NULL"
    /\ opcao \in EntradaOpcao
    /\ venceu = 0
    /\ nAtaques = 0
    /\ i = 0
    /\ atk = 0
    /\ def = 0
    /\ dadoAtaque = 0
    /\ dadoDefesa = 0
    /\ saida = ""
    /\ pc = "sortearMissao"

\* ------------------------------------------------------------ sortearMissao
\* tipo = rand() % 2
SortearTipo(t) ==
    /\ pc = "sortearMissao"
    /\ IF t = 0
       THEN /\ tipo' = 0
            /\ tent' = 0
            /\ escolhida' = "NULL"
            /\ pc' = "tentativa"
            /\ UNCHANGED missao
       ELSE /\ alvoMissao' = "3Territorios"
            /\ idMissao' = t
            /\ pc' = "menu"
            /\ UNCHANGED sorteio
    /\ UNCHANGED <<mapa, opcao, venceu, nAtaques, i, locaisAtaque, saida>>

\* Variant of Tentativa: the drawn colour is taken without comparing it with
\* the player's colour.
TentativaSemTeste(k) ==
    /\ pc = "tentativa"
    /\ tent < MAX_TENTATIVAS
    /\ escolhida = "NULL"
    /\ escolhida' = possiveis[k]
    /\ tent' = tent + 1
    /\ UNCHANGED <<mapa, missao, tipo, opcao, venceu, nAtaques, i,
                   locaisAtaque, saida, pc>>

\* One turn of the retry loop: c = possiveis[rand() % n].
Tentativa(k) ==
    /\ pc = "tentativa"
    /\ tent < MAX_TENTATIVAS
    /\ escolhida = "NULL"
    /\ escolhida' = IF possiveis[k] # corJogador THEN possiveis[k] ELSE "NULL"
    /\ tent' = tent + 1
    /\ UNCHANGED <<mapa, missao, tipo, opcao, venceu, nAtaques, i,
                   locaisAtaque, saida, pc>>

\* The first palette entry that is not the player's colour.
Fallback ==
    possiveis[CHOOSE k \in DOMAIN possiveis :
                /\ possiveis[k] # corJogador
                /\ \A j \in DOMAIN possiveis :
                      j < k => possiveis[j] = corJogador]

\* Loop exit, fallback, copy into alvoMissao and return of tipo.
ConcluirSorteio ==
    /\ pc = "tentativa"
    /\ ~(tent < MAX_TENTATIVAS /\ escolhida = "NULL")
    /\ alvoMissao' = IF escolhida = "NULL" THEN Fallback ELSE escolhida
    /\ idMissao' = tipo
    /\ tipo' = -1
    /\ tent' = 0
    /\ escolhida' = "NULL"
    /\ pc' = "menu"
    /\ UNCHANGED <<mapa, opcao, venceu, nAtaques, i, locaisAtaque, saida>>

\* --------------------------------------------------------- verificarVitoria
\* Variant of verificarVitoria: the "destroy army" test looks at the owner
\* only and forgets the troops.
verificarVitoriaSemTropas(t, c, id, alvo, jogador) ==
    IF id = 0
    THEN IF \E k \in Indices : c[k] = alvo THEN 0 ELSE 1
    ELSE IF id = 1
         THEN IF Cardinality({k \in Indices : c[k] = jogador})
                   >= LIMIAR_TERRITORIOS
              THEN 1 ELSE 0
         ELSE 0

\* Variant of verificarVitoria: the "conquer" test asks for more than 3.
verificarVitoriaMaisDeTres(t, c, id, alvo, jogador) ==
    IF id = 0
    THEN IF \E k \in Indices : c[k] = alvo /\ t[k] > 0 THEN 0 ELSE 1
    ELSE IF id = 1
         THEN IF Cardinality({k \in Indices : c[k] = jogador})
                   > LIMIAR_TERRITORIOS
              THEN 1 ELSE 0
         ELSE 0

verificarVitoria(t, c, id, alvo, jogador) ==
    IF id = 0
    THEN IF \E k \in Indices : c[k] = alvo /\ t[k] > 0 THEN 0 ELSE 1
    ELSE IF id = 1
         THEN IF Cardinality({k \in Indices : c[k] = jogador})
                   >= LIMIAR_TERRITORIOS
              THEN 1 ELSE 0
         ELSE 0

\* ------------------------------------------------------------ simularAtaque
\* Variant of Precondicao: the defender is not checked.
PrecondicaoSoAtacante(t, a, d) ==
    IF t[a] <= 0 THEN "AtacanteVazio"
    ELSE "Ok"

\* Variant of Precondicao: both tests are written with < instead of <=.
PrecondicaoMenorQueZero(t, a, d) ==
    IF t[a] < 0 THEN "AtacanteVazio"
    ELSE IF t[d] < 0 THEN "DefensorVazio"
    ELSE "Ok"

\* Variant of Precondicao: the attacker is not checked.
PrecondicaoSoDefensor(t, a, d) ==
    IF t[d] <= 0 THEN "DefensorVazio"
    ELSE "Ok"

\* The two emptiness checks at the top of simularAtaque.
Precondicao(t, a, d) ==
    IF t[a] <= 0 THEN "AtacanteVazio"
    ELSE IF t[d] <= 0 THEN "DefensorVazio"
    ELSE "Ok"

\* Variant of AtacanteVence: a tie goes to the defender.
AtacanteVenceSemEmpate(da, dd) == da > dd

\* The comparison of the two dice: ties favour the attacker.
AtacanteVence(da, dd) == da >= dd

\* The outcomes of the comparison over all rolls of the two dice.
Rolagens == {AtacanteVence(da, dd) : da \in Dados, dd \in Dados}

\* Variant of Resultado: a conquest by an attacker with more than one troop
\* takes the troop from the attacker but does not put it on the conquered
\* territory.
ResultadoSemOcupar(t, c, a, d, vence) ==
    IF vence
    THEN IF t[d] - 1 <= 0
         THEN [tropas |-> IF t[a] > 1
                          THEN [t EXCEPT ![a] = @ - 1, ![d] = 0]
                          ELSE [t EXCEPT ![d] = 1, ![a] = 0],
               corExercito |-> [c EXCEPT ![d] = c[a]],
               saida |-> "Conquista"]
         ELSE [tropas |-> [t EXCEPT ![d] = @ - 1],
               corExercito |-> c,
               saida |-> "Perda"]
    ELSE [tropas |-> t, corExercito |-> c, saida |-> "Defesa"]

\* Variant of Resultado: the conquest moves two troops and does not look at
\* what the attacker has.
ResultadoMoveDuas(t, c, a, d, vence) ==
    IF vence
    THEN LET t1 == [t EXCEPT ![d] = t[d] - 1]
         IN  IF t1[d] <= 0
             THEN [tropas |-> [t1 EXCEPT ![a] = t1[a] - 2, ![d] = 1],
                   corExercito |-> [c EXCEPT ![d] = c[a]],
                   saida |-> "Conquista"]
             ELSE [tropas |-> t1, corExercito |-> c, saida |-> "Perda"]
    ELSE [tropas |-> t, corExercito |-> c, saida |-> "Defesa"]

\* Variant of Resultado: an attacker that conquers with its only troop
\* keeps it.
ResultadoSemZerar(t, c, a, d, vence) ==
    IF vence
    THEN LET t1 == [t EXCEPT ![d] = t[d] - 1]
         IN  IF t1[d] <= 0
             THEN [tropas |-> IF t1[a] > 1
                              THEN [t1 EXCEPT ![a] = t1[a] - 1, ![d] = 1]
                              ELSE [t1 EXCEPT ![d] = 1],
                   corExercito |-> [c EXCEPT ![d] = c[a]],
                   saida |-> "Conquista"]
             ELSE [tropas |-> t1, corExercito |-> c, saida |-> "Perda"]
    ELSE [tropas |-> t, corExercito |-> c, saida |-> "Defesa"]

\* Variant of Resultado: a failed attack costs the attacker one troop.
ResultadoDefesaCusta(t, c, a, d, vence) ==
    IF vence
    THEN LET t1 == [t EXCEPT ![d] = t[d] - 1]
         IN  IF t1[d] <= 0
             THEN [tropas |-> IF t1[a] > 1
                              THEN [t1 EXCEPT ![a] = t1[a] - 1, ![d] = 1]
                              ELSE [t1 EXCEPT ![d] = 1, ![a] = 0],
                   corExercito |-> [c EXCEPT ![d] = c[a]],
                   saida |-> "Conquista"]
             ELSE [tropas |-> t1, corExercito |-> c, saida |-> "Perda"]
    ELSE [tropas |-> [t EXCEPT ![a] = t[a] - 1], corExercito |-> c,
          saida |-> "Defesa"]

\* The two branches of simularAtaque after the dice are compared: a and d
\* are the array positions of the attacker and the defender, vence the
\* outcome of the comparison.  The result is the new registry and the
\* message printed.
Resultado(t, c, a, d, vence) ==
    IF vence
    THEN LET t1 == [t EXCEPT ![d] = t[d] - 1]
         IN  IF t1[d] <= 0
             THEN [tropas |-> IF t1[a] > 1
                              THEN [t1 EXCEPT ![a] = t1[a] - 1, ![d] = 1]
                              ELSE [t1 EXCEPT ![d] = 1, ![a] = 0],
                   corExercito |-> [c EXCEPT ![d] = c[a]],
                   saida |-> "Conquista"]
             ELSE [tropas |-> t1, corExercito |-> c, saida |-> "Perda"]
    ELSE [tropas |-> t, corExercito |-> c, saida |-> "Defesa"]

\* The body of simularAtaque once the dice da and dd are rolled.
Combate(t, c, a, d, da, dd) == Resultado(t, c, a, d, AtacanteVence(da, dd))

\* ------------------------------------------------------------- faseDeAtaque
\* Variant of IndicesInvalidos: a territory may attack itself.
IndicesInvalidosSemIguais(a, d) ==
    \/ a < 1
    \/ a > TOTAL_TERRITORIOS
    \/ d < 1
    \/ d > TOTAL_TERRITORIOS

\* The index test of faseDeAtaque (a and d are the 1-based values typed).
IndicesInvalidos(a, d) ==
    \/ a < 1
    \/ a > TOTAL_TERRITORIOS
    \/ d < 1
    \/ d > TOTAL_TERRITORIOS
    \/ a = d

\* A pair of typed indices on which the dice would be rolled.  Used only to
\* bound the exploration: once limite troops are lost no such pair is typed.
Disputa(a, d) ==
    /\ a \in 1 .. TOTAL_TERRITORIOS
    /\ d \in 1 .. TOTAL_TERRITORIOS
    /\ a # d
    /\ tropas[a - 1] > 0
    /\ tropas[d - 1] > 0

DentroDoLimite(a, d, limite) == Disputa(a, d) => Baixas < limite

LimparLocais ==
    /\ atk' = 0
    /\ def' = 0
    /\ dadoAtaque' = 0
    /\ dadoDefesa' = 0

\* ++i and the loop test: either the banner and the prompt of the next
\* attack follow the result message m, or faseDeAtaque returns and main
\* waits for Enter with m on the screen.
ProximoAtaque(m) ==
    /\ i' = IF i + 1 < nAtaques THEN i + 1 ELSE 0
    /\ nAtaques' = IF i + 1 < nAtaques THEN nAtaques ELSE 0
    /\ pc' = IF i + 1 < nAtaques THEN "ataque" ELSE "pausa"
    /\ saida' = IF i + 1 < nAtaques THEN "" ELSE m

\* scanf of nAtaques succeeded.
LerNAtaques(n) ==
    /\ pc = "faseDeAtaque"
    /\ i' = 0
    /\ nAtaques' = IF 0 < n THEN n ELSE 0
    /\ pc' = IF 0 < n THEN "ataque" ELSE "pausa"
    /\ UNCHANGED <<mapa, missao, sorteio, opcao, venceu, locaisAtaque, saida>>

\* scanf of nAtaques failed: faseDeAtaque returns at once.
LerNAtaquesMalformado ==
    /\ pc = "faseDeAtaque"
    /\ saida' = "EntradaInvalida"
    /\ pc' = "pausa"
    /\ UNCHANGED <<mapa, missao, sorteio, opcao, venceu, nAtaques, i,
                   locaisAtaque>>

\* One of the two scanf calls of one attack failed: the attack is skipped.
LerIndicesMalformado ==
    /\ pc = "ataque"
    /\ ProximoAtaque("EntradaInvalida")
    /\ UNCHANGED <<mapa, missao, sorteio, opcao, venceu, locaisAtaque>>

\* ---- one attack followed through its positions
\* Both scanf calls of one attack succeeded.
LerIndices(a, d) ==
    /\ pc = "ataque"
    /\ DentroDoLimite(a, d, MaxBaixasPasso)
    /\ atk' = a
    /\ def' = d
    /\ saida' = ""
    /\ pc' = "validar"
    /\ UNCHANGED <<mapa, missao, sorteio, opcao, venceu, nAtaques, i,
                   dadoAtaque, dadoDefesa>>

\* Variant of Validar: an invalid pair makes faseDeAtaque return instead of
\* going on with the next attack.
ValidarAborta ==
    /\ pc = "validar"
    /\ IF IndicesInvalidos(atk, def)
       THEN /\ saida' = "IndiceInvalido"
            /\ pc' = "pausa"
            /\ i' = 0
            /\ nAtaques' = 0
            /\ LimparLocais
       ELSE /\ saida' = saida
            /\ pc' = "simularAtaque"
            /\ UNCHANGED <<nAtaques, i, locaisAtaque>>
    /\ UNCHANGED <<mapa, missao, sorteio, opcao, venceu>>

\* The index test; a valid pair reaches the call of simularAtaque.
Validar ==
    /\ pc = "validar"
    /\ IF IndicesInvalidos(atk, def)
       THEN /\ saida' = "IndiceInvalido"
            /\ pc' = "fimAtaque"
       ELSE /\ saida' = saida
            /\ pc' = "simularAtaque"
    /\ UNCHANGED <<mapa, missao, sorteio, opcao, venceu, nAtaques, i,
                   locaisAtaque>>

\* simularAtaque returns early: attacker or defender without troops.
SimularAtaqueVazio ==
    /\ pc = "simularAtaque"
    /\ Precondicao(tropas, atk - 1, def - 1) # "Ok"
    /\ saida' = Precondicao(tropas, atk - 1, def - 1)
    /\ pc' = "fimAtaque"
    /\ UNCHANGED <<mapa, missao, sorteio, opcao, venceu, nAtaques, i,
                   locaisAtaque>>

\* Variant of SimularAtaque: the defender is passed as &territorios[def]
\* instead of &territorios[def - 1].
SimularAtaqueVizinho(da, dd) ==
    /\ pc = "simularAtaque"
    /\ Precondicao(tropas, atk - 1, def - 1) = "Ok"
    /\ dadoAtaque' = da
    /\ dadoDefesa' = dd
    /\ LET r == Combate(tropas, corExercito, atk - 1, def, da, dd)
       IN  /\ tropas' = r.tropas
           /\ corExercito' = r.corExercito
           /\ saida' = r.saida
    /\ pc' = "fimAtaque"
    /\ UNCHANGED <<nome, missao, sorteio, opcao, venceu, nAtaques, i, atk,
                   def>>

\* simularAtaque rolls the dice da and dd and resolves the attack.
SimularAtaque(da, dd) ==
    /\ pc = "simularAtaque"
    /\ Precondicao(tropas, atk - 1, def - 1) = "Ok"
    /\ dadoAtaque' = da
    /\ dadoDefesa' = dd
    /\ LET r == Combate(tropas, corExercito, atk - 1, def - 1, da, dd)
       IN  /\ tropas' = r.tropas
           /\ corExercito' = r.corExercito
           /\ saida' = r.saida
    /\ pc' = "fimAtaque"
    /\ UNCHANGED <<nome, missao, sorteio, opcao, venceu, nAtaques, i, atk,
                   def>>

\* End of one turn of the loop body: its locals go out of scope.
FimAtaque ==
    /\ pc = "fimAtaque"
    /\ LimparLocais
    /\ ProximoAtaque(saida)
    /\ UNCHANGED <<mapa, missao, sorteio, opcao, venceu>>

\* ---- one attack with well-formed input taken as one step
\* The index test fails.
AtaqueIndiceInvalido(a, d) ==
    /\ pc = "ataque"
    /\ IndicesInvalidos(a, d)
    /\ ProximoAtaque("IndiceInvalido")
    /\ UNCHANGED <<mapa, missao, sorteio, opcao, venceu, locaisAtaque>>

\* simularAtaque is called and returns early.
AtaqueVazio(a, d) ==
    /\ pc = "ataque"
    /\ ~IndicesInvalidos(a, d)
    /\ Precondicao(tropas, a - 1, d - 1) # "Ok"
    /\ ProximoAtaque(Precondicao(tropas, a - 1, d - 1))
    /\ UNCHANGED <<mapa, missao, sorteio, opcao, venceu, locaisAtaque>>

\* simularAtaque is called, rolls the two dice and resolves the attack.
AtaqueResolvido(a, d) ==
    /\ pc = "ataque"
    /\ DentroDoLimite(a, d, MaxBaixas)
    /\ ~IndicesInvalidos(a, d)
    /\ Precondicao(tropas, a - 1, d - 1) = "Ok"
    /\ \E vence \in Rolagens :
          LET r == Resultado(tropas, corExercito, a - 1, d - 1, vence)
          IN  /\ tropas' = r.tropas
              /\ corExercito' = r.corExercito
              /\ ProximoAtaque(r.saida)
    /\ UNCHANGED <<nome, missao, sorteio, opcao, venceu, locaisAtaque>>

\* --------------------------------------------------------------------- main
\* Menu option 1.
Atacar ==
    /\ pc = "menu"
    /\ opcao' = 1
    /\ saida' = ""
    /\ pc' = "faseDeAtaque"
    /\ UNCHANGED <<mapa, missao, sorteio, venceu, nAtaques, i, locaisAtaque>>

\* Variant of VerificarMissao: a failed check erases the mission target.
VerificarMissaoApagaAlvo ==
    /\ pc = "menu"
    /\ opcao' = 2
    /\ IF verificarVitoria(tropas, corExercito, idMissao, alvoMissao,
                           corJogador) # 0
       THEN /\ venceu' = 1
            /\ saida' = "MissaoCumprida"
            /\ pc' = "fim"
            /\ alvoMissao' = alvoMissao
       ELSE /\ venceu' = venceu
            /\ saida' = "MissaoNaoCumprida"
            /\ pc' = "pausa"
            /\ alvoMissao' = ""
    /\ UNCHANGED <<mapa, idMissao, sorteio, nAtaques, i, locaisAtaque>>

\* Variant of VerificarMissao: a satisfied mission is reported but venceu is
\* not set, so the game goes on.
VerificarMissaoSemVitoria ==
    /\ pc = "menu"
    /\ opcao' = 2
    /\ saida' = IF verificarVitoria(tropas, corExercito, idMissao,
                                    alvoMissao, corJogador) # 0
                THEN "MissaoCumprida" ELSE "MissaoNaoCumprida"
    /\ pc' = "pausa"
    /\ UNCHANGED <<mapa, missao, sorteio, venceu, nAtaques, i, locaisAtaque>>

\* Menu option 2.
VerificarMissao ==
    /\ pc = "menu"
    /\ opcao' = 2
    /\ IF verificarVitoria(tropas, corExercito, idMissao, alvoMissao,
                           corJogador) # 0
       THEN /\ venceu' = 1
            /\ saida' = "MissaoCumprida"
            /\ pc' = "fim"
       ELSE /\ venceu' = venceu
            /\ saida' = "MissaoNaoCumprida"
            /\ pc' = "pausa"
    /\ UNCHANGED <<mapa, missao, sorteio, nAtaques, i, locaisAtaque>>

\* Variant of Sair: the loop test does not look at opcao, so the menu is
\* shown again after "Saindo".
SairContinua ==
    /\ pc = "menu"
    /\ opcao' = 0
    /\ saida' = "Saindo"
    /\ pc' = "menu"
    /\ UNCHANGED <<mapa, missao, sorteio, venceu, nAtaques, i, locaisAtaque>>

\* Menu option 0.
Sair ==
    /\ pc = "menu"
    /\ opcao' = 0
    /\ saida' = "Saindo"
    /\ pc' = "fim"
    /\ UNCHANGED <<mapa, missao, sorteio, venceu, nAtaques, i, locaisAtaque>>

\* Variant of OpcaoInvalida: an input that is not a number leaves the loop
\* as option 0 does.
OpcaoInvalidaSai(op) ==
    /\ pc = "menu"
    /\ op \notin {0, 1, 2}
    /\ opcao' = op
    /\ saida' = "OpcaoInvalida"
    /\ pc' = IF op = -1 THEN "fim" ELSE "pausa"
    /\ UNCHANGED <<mapa, missao, sorteio, venceu, nAtaques, i, locaisAtaque>>

\* Any other number; an input that is not a number is read as -1.
OpcaoInvalida(op) ==
    /\ pc = "menu"
    /\ op \notin {0, 1, 2}
    /\ opcao' = op
    /\ saida' = "OpcaoInvalida"
    /\ pc' = "pausa"
    /\ UNCHANGED <<mapa, missao, sorteio, venceu, nAtaques, i, locaisAtaque>>

\* Variant of Continuar: the mission is drawn inside the loop, before each
\* menu.
ContinuarSorteia ==
    /\ pc = "pausa"
    /\ saida' = ""
    /\ pc' = "sortearMissao"
    /\ UNCHANGED <<mapa, missao, sorteio, opcao, venceu, nAtaques, i,
                   locaisAtaque>>

\* The pause for Enter and the loop test (opcao != 0 && !venceu holds here).
Continuar ==
    /\ pc = "pausa"
    /\ saida' = ""
    /\ pc' = "menu"
    /\ UNCHANGED <<mapa, missao, sorteio, opcao, venceu, nAtaques, i,
                   locaisAtaque>>

\* ------------------------------------------------------------ specification
Sortear ==
    \/ \E t \in 0 .. 1 : SortearTipo(t)
    \/ \E k \in DOMAIN possiveis : Tentativa(k)
    \/ ConcluirSorteio

Menu ==
    \/ Atacar
    \/ VerificarMissao
    \/ Sair
    \/ \E op \in EntradaOpcao : OpcaoInvalida(op)
    \/ Continuar

\* The game with each attack of the attack loop taken as one step.
Next ==
    \/ Sortear
    \/ Menu
    \/ \E n \in EntradaNAtaques : LerNAtaques(n)
    \/ LerNAtaquesMalformado
    \/ LerIndicesMalformado
    \/ \E a, d \in EntradaIndice : AtaqueIndiceInvalido(a, d)
    \/ \E a, d \in EntradaIndice : AtaqueVazio(a, d)
    \/ \E a, d \in EntradaIndice : AtaqueResolvido(a, d)

Spec == Init /\ [][Next]_vars

\* The game with each attack followed through its positions: indices read,
\* index test, troop checks, dice rolled, attack resolved.
NextPasso ==
    \/ Sortear
    \/ Menu
    \/ \E n \in EntradaNAtaquesPasso : LerNAtaques(n)
    \/ LerNAtaquesMalformado
    \/ \E a, d \in EntradaIndicePasso : LerIndices(a, d)
    \/ LerIndicesMalformado
    \/ Validar
    \/ SimularAtaqueVazio
    \/ \E da, dd \in Dados : SimularAtaque(da, dd)
    \/ FimAtaque

SpecPasso == Init /\ [][NextPasso]_vars

\* The registry under attacks alone, with no bound on the troops lost.  The
\* game is taken from the state in which the "conquer" mission was drawn,
\* menu option 1 was chosen and one attack was asked for.
InitMapa ==
    /\ nome = nomes
    /\ tropas = tropasIniciais
    /\ corExercito = cores
    /\ idMissao = 1
    /\ alvoMissao = "3Territorios"
    /\ tipo = -1
    /\ tent = 0
    /\ escolhida = "NULL"
    /\ opcao = 1
    /\ venceu = 0
    /\ nAtaques = 1
    /\ i = 0
    /\ atk = 0
    /\ def = 0
    /\ dadoAtaque = 0
    /\ dadoDefesa = 0
    /\ saida = ""
    /\ pc = "ataque"

\* The one attack of the command is resolved by simularAtaque; then the
\* pause, menu option 1 and the request for one attack follow, which bring
\* the program back to the same position without touching the registry.
AtaqueEmSerie(a, d) ==
    /\ pc = "ataque"
    /\ ~IndicesInvalidos(a, d)
    /\ Precondicao(tropas, a - 1, d - 1) = "Ok"
    /\ \E vence \in Rolagens :
          LET r == Resultado(tropas, corExercito, a - 1, d - 1, vence)
          IN  /\ tropas' = r.tropas
              /\ corExercito' = r.corExercito
    /\ UNCHANGED <<nome, missao, sorteio, opcao, venceu, nAtaques, i,
                   locaisAtaque, saida, pc>>

NextMapa == \E a, d \in EntradaIndice : AtaqueEmSerie(a, d)

SpecMapa == InitMapa /\ [][NextMapa]_vars

\* ------------------------------------------------------------------- claims
Max(x, y) == IF x >= y THEN x ELSE y

\* Territories whose owner is colour c.
DaCor(c) == {k \in Indices : corExercito[k] = c}

RECURSIVE SomaCorAte(_, _)
SomaCorAte(c, k) ==
    IF k < 0 THEN 0
    ELSE (IF corExercito[k] = c THEN tropas[k] ELSE 0) + SomaCorAte(c, k - 1)

\* Sum of the troops of the territories whose owner is colour c.
SomaCor(c) == SomaCorAte(c, TOTAL_TERRITORIOS - 1)

\* The mission condition in the words of the specification.
MissaoSatisfeita ==
    \/ /\ idMissao = 0
       /\ ~\E k \in Indices : corExercito[k] = alvoMissao /\ tropas[k] > 0
    \/ /\ idMissao = 1
       /\ Cardinality(DaCor(corJogador)) >= 3

\* A step in which simularAtaque runs on the pair (atk, def).
PassoSimular == pc = "simularAtaque" /\ pc' = "fimAtaque"

\* A step in which main handles menu option 2.
PassoVerificar == pc = "menu" /\ pc' # "menu" /\ opcao' = 2

\* C1: in every state reachable from the initial registry (5,4,6,3,5) by
\* attacks, mission checks, quit and invalid commands, with any dice, every
\* territory has tropas >= 0.
C1_TropasNaoNegativas == \A k \in Indices : tropas[k] >= 0

\* An attack has left a territory with no troops at all.
C1_Witness ==
    /\ saida = "Conquista"
    /\ \E k \in Indices : tropas[k] = 0

\* C2: when simularAtaque ends in a conquest (both had troops, the attack die
\* is not lower than the defence die, the defender had exactly 1 troop) the
\* defender takes the colour the attacker had, the defender has 1 troop and
\* the attacker has max(old - 1, 0) troops.
C2_Conquista ==
    [][(/\ PassoSimular
        /\ tropas[atk - 1] > 0
        /\ tropas[def - 1] = 1
        /\ dadoAtaque' >= dadoDefesa')
       => /\ corExercito'[def - 1] = corExercito[atk - 1]
          /\ tropas'[def - 1] = 1
          /\ tropas'[atk - 1] = Max(tropas[atk - 1] - 1, 0)]_vars

\* simularAtaque has just conquered with the attacker's last troop.
C2_Witness ==
    /\ pc = "fimAtaque"
    /\ saida = "Conquista"
    /\ dadoAtaque >= dadoDefesa
    /\ tropas[atk - 1] = 0
    /\ tropas[def - 1] = 1
    /\ corExercito[def - 1] = corExercito[atk - 1]

\* C3: when both have troops and the attack die is greater than or equal to
\* the defence die the defender loses one troop: with 2 or more troops its
\* count becomes old - 1 and its owner and the attacker are unchanged; with
\* 1 troop it loses its last troop and is conquered.
C3_DefensorPerdeUma ==
    [][(/\ PassoSimular
        /\ tropas[atk - 1] > 0
        /\ tropas[def - 1] > 0
        /\ dadoAtaque' >= dadoDefesa')
       => /\ saida' \in {"Perda", "Conquista"}
          /\ tropas[def - 1] >= 2 =>
                /\ saida' = "Perda"
                /\ tropas'[def - 1] = tropas[def - 1] - 1
                /\ corExercito' = corExercito
                /\ tropas'[atk - 1] = tropas[atk - 1]
          /\ tropas[def - 1] = 1 => saida' = "Conquista"]_vars

\* simularAtaque has just resolved a tie against a defender that keeps its
\* territory.
C3_Witness ==
    /\ pc = "fimAtaque"
    /\ saida = "Perda"
    /\ dadoAtaque = dadoDefesa
    /\ dadoAtaque \in Dados
    /\ tropas[def - 1] >= 1
    /\ tropas[def - 1] < tropasIniciais[def - 1]

\* C4: when both have troops and the defence die is strictly greater than
\* the attack die, the troops and the owner of both territories are
\* unchanged.
C4_DefesaNadaMuda ==
    [][(/\ PassoSimular
        /\ tropas[atk - 1] > 0
        /\ tropas[def - 1] > 0
        /\ dadoDefesa' > dadoAtaque')
       => /\ tropas' = tropas
          /\ corExercito' = corExercito]_vars

\* simularAtaque has just resolved an attack that the defence won.
C4_Witness ==
    /\ pc = "fimAtaque"
    /\ saida = "Defesa"
    /\ dadoDefesa > dadoAtaque
    /\ dadoAtaque \in Dados

\* C5: simularAtaque called with an attacker or a defender without troops
\* fails (AtacanteVazio, DefensorVazio) before any die is rolled and leaves
\* the troops and the owners of all territories unchanged.
C5_SemTropasFalha ==
    [][(/\ PassoSimular
        /\ (tropas[atk - 1] <= 0 \/ tropas[def - 1] <= 0))
       => /\ saida' = (IF tropas[atk - 1] <= 0 THEN "AtacanteVazio"
                       ELSE "DefensorVazio")
          /\ dadoAtaque' = 0
          /\ dadoDefesa' = 0
          /\ tropas' = tropas
          /\ corExercito' = corExercito]_vars

\* simularAtaque has just refused a defender without troops attacked by a
\* territory that has troops.
C5_Witness ==
    /\ pc = "fimAtaque"
    /\ saida = "DefensorVazio"
    /\ tropas[atk - 1] > 0
    /\ tropas[def - 1] = 0
    /\ dadoAtaque = 0

\* C6: an attack whose attacker or defender index is outside
\* 1..TOTAL_TERRITORIOS (0 and negatives included) or whose two indices are
\* equal never calls simularAtaque and leaves every territory unchanged.
C6_IndicesInvalidos ==
    [][(/\ pc = "validar"
        /\ \/ atk \notin 1 .. TOTAL_TERRITORIOS
           \/ def \notin 1 .. TOTAL_TERRITORIOS
           \/ atk = def)
       => /\ pc' # "simularAtaque"
          /\ dadoAtaque' = 0
          /\ dadoDefesa' = 0
          /\ tropas' = tropas
          /\ corExercito' = corExercito]_vars

\* The index test has just cancelled an attack of a territory on itself.
C6_Witness ==
    /\ pc = "fimAtaque"
    /\ saida = "IndiceInvalido"
    /\ atk = def
    /\ atk \in 1 .. TOTAL_TERRITORIOS

\* C7: with a "destroy army" mission, verificarVitoria returns true exactly
\* when the troops of the territories of the target colour sum to 0; the
\* result printed by the last mission check agrees.
C7_DestruirExercito ==
    idMissao = 0 =>
        /\ (verificarVitoria(tropas, corExercito, idMissao, alvoMissao,
                             corJogador) = 1)
              <=> (SomaCor(alvoMissao) = 0)
        /\ saida = "MissaoCumprida" => SomaCor(alvoMissao) = 0
        /\ saida = "MissaoNaoCumprida" => SomaCor(alvoMissao) # 0

\* A mission check has just found the target army destroyed.
C7_Witness ==
    /\ idMissao = 0
    /\ saida = "MissaoCumprida"
    /\ venceu = 1

\* C8: with a "conquer 3 territories" mission, verificarVitoria returns true
\* exactly when the player's colour owns 3 or more territories, whatever
\* their troops; the result printed by the last mission check agrees.
C8_ConquistarTres ==
    idMissao = 1 =>
        /\ (verificarVitoria(tropas, corExercito, idMissao, alvoMissao,
                             corJogador) = 1)
              <=> (Cardinality(DaCor(corJogador)) >= 3)
        /\ saida = "MissaoCumprida" => Cardinality(DaCor(corJogador)) >= 3
        /\ saida = "MissaoNaoCumprida" => Cardinality(DaCor(corJogador)) < 3

\* A mission check has just found three territories of the player's colour.
C8_Witness ==
    /\ idMissao = 1
    /\ saida = "MissaoCumprida"
    /\ venceu = 1

\* C9: a mission check changes no territory and not the mission, and
\* evaluating the mission again right after it gives the result it printed.
C9_VerificacaoPura ==
    [][PassoVerificar
       => /\ tropas' = tropas
          /\ corExercito' = corExercito
          /\ idMissao' = idMissao
          /\ alvoMissao' = alvoMissao
          /\ (verificarVitoria(tropas', corExercito', idMissao', alvoMissao',
                               corJogador) = 1)
                <=> (saida' = "MissaoCumprida")]_vars

\* A mission check has just failed after an attack changed the registry.
C9_Witness ==
    /\ pc = "pausa"
    /\ opcao = 2
    /\ saida = "MissaoNaoCumprida"
    /\ tropas # tropasIniciais

\* C10: venceu becomes 1 only in a mission check made at the menu with the
\* mission satisfied, and every such check sets it and ends the loop; a
\* check with the mission not satisfied goes on playing, and no step of the
\* attack phase ends the game.
C10_Vitoria ==
    [][/\ (venceu = 0 /\ venceu' = 1) => (PassoVerificar /\ MissaoSatisfeita)
       /\ (PassoVerificar /\ MissaoSatisfeita) =>
             (venceu' = 1 /\ pc' = "fim")
       /\ (PassoVerificar /\ ~MissaoSatisfeita) =>
             (venceu' = 0 /\ pc' = "pausa")
       /\ pc \in {"faseDeAtaque", "ataque"} =>
             (venceu' = 0 /\ pc' \in {"ataque", "pausa"})]_vars

\* Attacks made the mission true and the mission check that followed has
\* ended the game with a win.
C10_Witness ==
    /\ pc = "fim"
    /\ opcao = 2
    /\ venceu = 1
    /\ MissaoSatisfeita
    /\ tropas # tropasIniciais

\* The session has been won: main has set venceu.
Ganhou == venceu = 1

\* The session has been left: main has handled menu option 0.
Saiu == saida = "Saindo"

\* C11: Won and Exited are terminal.  Once the mission check has set venceu,
\* or menu option 0 has been handled, the program is at its end and no step
\* changes anything any more: session, registry and mission stay as they are.
C11_Terminais ==
    [][(Ganhou \/ Saiu) => (pc = "fim" /\ UNCHANGED vars)]_vars

\* The player left after troops were lost on the map.
C11_Witness ==
    /\ pc = "fim"
    /\ Saiu
    /\ ~Ganhou
    /\ tropas # tropasIniciais

\* The positions of one attack of the loop of faseDeAtaque.
NoAtaque == {"ataque", "validar", "simularAtaque", "fimAtaque"}

\* The attack counted by i goes on, inside the same command.
MesmoAtaque == i' = i /\ nAtaques' = nAtaques

\* The attack counted by i is over: the next one of the same command starts,
\* or, after the last one, the command is over.
AtaqueContado ==
    IF i + 1 < nAtaques
    THEN pc' = "ataque" /\ i' = i + 1 /\ nAtaques' = nAtaques
    ELSE pc' = "pausa"

\* C12: an attack command for n >= 1 attacks runs exactly n attacks before
\* the menu takes the next command.  The command starts with attack 0 of n;
\* every attack, also one skipped for malformed input, invalid indices or a
\* territory without troops, ends by counting one attack; the command is
\* over only after attack n - 1; the menu is reached only from the pause
\* that follows a command.
C12_TodosOsAtaques ==
    [][/\ (pc = "faseDeAtaque" /\ pc' \in NoAtaque)
            => (pc' = "ataque" /\ i' = 0 /\ nAtaques' >= 1)
       /\ (pc = "ataque" /\ pc' # "ataque")
            => ((pc' = "validar" /\ MesmoAtaque) \/ AtaqueContado)
       /\ (pc = "ataque" /\ pc' = "ataque") => AtaqueContado
       /\ pc = "validar"
            => (pc' \in {"simularAtaque", "fimAtaque"} /\ MesmoAtaque)
       /\ pc = "simularAtaque" => (pc' = "fimAtaque" /\ MesmoAtaque)
       /\ pc = "fimAtaque" => AtaqueContado
       /\ pc' \in NoAtaque => (0 <= i' /\ i' < nAtaques')
       /\ pc' = "menu" => pc \in {"pausa", "sortearMissao", "tentativa"}
      ]_vars

\* The first attack of a command for two was skipped for its indices and
\* one attack is still to come.
C12_Witness ==
    /\ pc = "fimAtaque"
    /\ saida = "IndiceInvalido"
    /\ i = 0
    /\ nAtaques = 2

\* The program positions of a session that is being played.
Jogando == {"menu", "faseDeAtaque", "pausa"} \cup NoAtaque

\* A step in which main handles a menu entry that is none of 0, 1, 2 (an
\* entry that is not a number is read as -1).
PassoOpcaoInvalida == pc = "menu" /\ pc' # "menu" /\ opcao' \notin {0, 1, 2}

\* C13: a menu entry that is not a number, or a number that is no option,
\* leaves the session being played (not won, not left) and changes neither
\* names, owners and troops of the territories nor the mission.
C13_OpcaoInvalida ==
    [][PassoOpcaoInvalida
         => /\ pc' \in Jogando
            /\ venceu' = 0
            /\ saida' = "OpcaoInvalida"
            /\ tropas' = tropas
            /\ corExercito' = corExercito
            /\ nome' = nome
            /\ idMissao' = idMissao
            /\ alvoMissao' = alvoMissao]_vars

\* An entry that is not a number was typed after troops were lost.
C13_Witness ==
    /\ pc = "pausa"
    /\ saida = "OpcaoInvalida"
    /\ opcao = -1
    /\ tropas # tropasIniciais

\* C14: simularAtaque on the pair (atk, def) changes no territory but these
\* two: owner and troops of every other territory are as before the call;
\* and no step of the program changes the name of a territory.
C14_SoOsDois ==
    [][/\ nome' = nome
       /\ PassoSimular
            => \A k \in Indices \ {atk - 1, def - 1} :
                   /\ tropas'[k] = tropas[k]
                   /\ corExercito'[k] = corExercito[k]
      ]_vars

\* A conquest has changed both territories of the pair; the names and the
\* other territories are as set up.
C14_Witness ==
    /\ pc = "fimAtaque"
    /\ saida = "Conquista"
    /\ tropas[atk - 1] # tropasIniciais[atk - 1]
    /\ corExercito[def - 1] # cores[def - 1]
    /\ nome = nomes
    /\ \A k \in Indices \ {atk - 1, def - 1} :
           tropas[k] = tropasIniciais[k] /\ corExercito[k] = cores[k]

\* C15: the mission is assigned once, before the first menu, and never
\* again.  From the menu on the mission has a kind (0 or 1), and once it has
\* one, no step changes kind or target, whatever the player types.
C15_MissaoFixa ==
    [][/\ idMissao # -1 => (idMissao' = idMissao /\ alvoMissao' = alvoMissao)
       /\ pc' \in Jogando \cup {"fim"} => idMissao' \in {0, 1}
      ]_vars

\* Attacks were made and the mission was checked, and the mission is still
\* one of those that can be drawn.
C15_Witness ==
    /\ pc = "pausa"
    /\ saida = "MissaoNaoCumprida"
    /\ idMissao = 0
    /\ alvoMissao = "Roxo"
    /\ tropas # tropasIniciais

\* The step in which sortearMissao stores the target and returns.
PassoConcluir == pc = "tentativa" /\ pc' = "menu"

\* C16: the target of a "destroy army" mission is one of the five colours
\* Verde, Azul, Vermelho, Amarelo, Roxo and is not the player's colour,
\* whatever the draws were; also when none of the 10 draws gave another
\* colour and the first other colour of the palette is taken.
C16_AlvoValido ==
    [][/\ idMissao' = 0
            => /\ alvoMissao' \in {"Verde", "Azul", "Vermelho", "Amarelo",
                                   "Roxo"}
               /\ alvoMissao' # corJogador
       /\ (PassoConcluir /\ escolhida = "NULL")
            => /\ tent = MAX_TENTATIVAS
               /\ idMissao' = 0
               /\ alvoMissao' = "Verde"
      ]_vars

\* All 10 draws gave the player's colour: the loop is over with nothing
\* chosen.
C16_Witness ==
    /\ pc = "tentativa"
    /\ tipo = 0
    /\ tent = MAX_TENTATIVAS
    /\ escolhida = "NULL"

\* No troop has been lost yet, so no territory has been conquered yet.
AntesDaPrimeiraBaixa == tropas = tropasIniciais

\* C17, as stated: in the initial state, and until the first conquest, no
\* territory has the player's colour as its owner.
C17_JogadorSemTerritorio ==
    AntesDaPrimeiraBaixa => DaCor(corJogador) = {}

\* C17, amended: in the initial state, and until the first conquest, the
\* player's colour owns exactly one territory, the second of the registry
\* (Cerrado, with 4 troops).
C17_JogadorTemCerrado ==
    AntesDaPrimeiraBaixa
        => /\ DaCor(corJogador) = {1}
           /\ nome[1] = "Cerrado"
           /\ tropas[1] = 4

\* The menu is reached for the first time: the registry is as set up and
\* Cerrado is owned by the player's colour.
C17_Witness ==
    /\ pc = "menu"
    /\ AntesDaPrimeiraBaixa
    /\ corExercito[1] = corJogador
    /\ corJogador = "Azul"

\* C18, as stated: a territory with 0 troops can still be attacked by a
\* territory that has troops: the dice are rolled, and when the attacker's
\* die is not lower the territory is conquered and gets the attacker's
\* colour.
C18_VazioConquistavel ==
    [][(/\ PassoSimular
        /\ tropas[atk - 1] > 0
        /\ tropas[def - 1] = 0)
       => /\ dadoAtaque' \in Dados
          /\ dadoDefesa' \in Dados
          /\ dadoAtaque' >= dadoDefesa'
               => /\ saida' = "Conquista"
                  /\ corExercito'[def - 1] = corExercito[atk - 1]]_vars

\* C18, amended: a territory left with 0 troops is out of the fight for
\* good.  As attacker it is refused ("AtacanteVazio"); as defender of a
\* territory that has troops it is refused too ("DefensorVazio"), with no
\* dice rolled; and no step ever changes its owner or its troops again.
C18_VazioForaDeCombate ==
    [][/\ (PassoSimular /\ tropas[atk - 1] = 0)
            => (saida' = "AtacanteVazio" /\ dadoAtaque' = 0)
       /\ (PassoSimular /\ tropas[atk - 1] > 0 /\ tropas[def - 1] = 0)
            => (saida' = "DefensorVazio" /\ dadoAtaque' = 0)
       /\ \A k \in Indices :
            tropas[k] = 0
               => (tropas'[k] = 0 /\ corExercito'[k] = corExercito[k])
      ]_vars

\* A territory that spent its last troop on a conquest, and was never
\* conquered itself, has been attacked, and the attack was refused.
C18_Witness ==
    /\ pc = "fimAtaque"
    /\ saida = "DefensorVazio"
    /\ def \in 1 .. TOTAL_TERRITORIOS
    /\ tropas[def - 1] = 0
    /\ corExercito[def - 1] = cores[def - 1]
    /\ tropas # tropasIniciais

\* The sum of the troops of the five territories of the registry t.
SomaTropas(t) == t[0] + t[1] + t[2] + t[3] + t[4]

Alvos == {"Verde", "Vermelho", "Amarelo", "Roxo"}

\* The army of colour c is destroyed in the registry (t, cs): verificarVitoria
\* answers 1 for the mission "destroy c".
Destruido(t, cs, c) == verificarVitoria(t, cs, 0, c, corJogador) = 1

\* The player's colour owns at least 3 territories in the registry (t, cs):
\* verificarVitoria answers 1 for the mission "conquer".
TemTres(t, cs) == verificarVitoria(t, cs, 1, "3Territorios", corJogador) = 1

\* Satisfaction of the "conquer" mission is kept by every step.  This is
\* not a property of the game: a conquest of a territory of the player
\* breaks it.
LimiarEstavel ==
    [][TemTres(tropas, corExercito) => TemTres(tropas', corExercito')]_vars

\* C20: once a "destroy army" mission is satisfied it stays satisfied: if no
\* territory has the target colour and troops, no attack brings such a
\* territory back.  The "conquer" mission has no such guarantee: a state in
\* which the player has 3 territories can be followed by the conquest of one
\* of them by another colour (C20_Witness is such a state).
C20_DestruirEstavel ==
    [][\A c \in Alvos :
          Destruido(tropas, corExercito, c)
             => Destruido(tropas', corExercito', c)]_vars

\* Some army is destroyed and yet attacks go on; the player's colour owns
\* exactly 3 territories, and one of them, with a single troop, can be
\* attacked by a territory of another colour that has troops, whose win
\* conquers it and leaves the player with 2.
C20_Witness ==
    /\ \E c \in Alvos : Destruido(tropas, corExercito, c)
    /\ TemTres(tropas, corExercito)
    /\ Cardinality(DaCor(corJogador)) = 3
    /\ \E a, d \in Indices :
          /\ corExercito[a] # corJogador
          /\ tropas[a] > 0
          /\ corExercito[d] = corJogador
          /\ tropas[d] = 1
          /\ ~TemTres(Resultado(tropas, corExercito, a, d, TRUE).tropas,
                      Resultado(tropas, corExercito, a, d,
                                TRUE).corExercito)

====
